---- MODULE Spec2Model ----
(***************************************************************************)
(* Model of src/server.mjs: the POST /api/chat relay and its helper        *)
(* buildMessages.  The source file holds two variants of the server, one   *)
(* after the other (lines 1-146 and 148-298); variant says which one is    *)
(* deployed.                                                               *)
(*                                                                         *)
(* JavaScript values are modelled as follows.                              *)
(*  - a string-or-missing value (prompt, state.html, ...) is a string, the *)
(*    two sentinels UNDEFINED and NULL standing for undefined and null;    *)
(*  - history and state are tagged records (kind says which JS value it    *)
(*    is), so that null and non-iterable values are inputs too;            *)
(*  - the content of a message is the sequence of the pieces the template  *)
(*    literal concatenates, in order: fixed text, then an interpolated     *)
(*    slot, then fixed text, ...  (the JS string is their concatenation).  *)
(***************************************************************************)
EXTENDS Integers, Sequences, FiniteSets, TLC

VARIABLES variant, reqs, call

vars == <<variant, reqs, call>>

\* ------------------------------------------------------------------ bounds
MaxHist == 2
NumReqs == 2

\* --------------------------------------------------------------- JS values
UNDEFINED == "#undefined"
NULL == "#null"

\* !v is false, and v || d yields v, exactly for the truthy values.
Truthy(v) == v \notin {UNDEFINED, NULL, ""}

\* v ?? d yields d exactly for null and undefined.
Nullish(v) == v \in {UNDEFINED, NULL}

\* What ${v} interpolates.
Interpolate(v) == IF v = UNDEFINED THEN "undefined" ELSE IF v = NULL THEN "null" ELSE v

HistUndefined == [kind |-> "undefined", items |-> << >>]
HistNull == [kind |-> "null", items |-> << >>]
HistNumber == [kind |-> "number", items |-> << >>]
HistArray(s) == [kind |-> "array", items |-> s]

StateUndefined == [kind |-> "undefined", html |-> UNDEFINED, css |-> UNDEFINED, js |-> UNDEFINED]
StateNull == [kind |-> "null", html |-> UNDEFINED, css |-> UNDEFINED, js |-> UNDEFINED]
StateObject(h, c, j) == [kind |-> "object", html |-> h, css |-> c, js |-> j]

\* ------------------------------------------------------------ fixed texts
SYSTEM_V1_INTRO == "You are a front-end assistant. The user is editing a web page. [...] add it to #demo-root instead of html or body."
SYSTEM_V1_RULES == "Only respond with **complete** HTML and/or CSS wrapped in fenced code blocks. [...] omit css."
SYSTEM_V2_TEXT == "You are a front-end assistant. The user is editing a web page. [...] Try your best to avoid changing things you're not asked to change."
HTML_LABEL == "Current HTML (inside #demo-root):"
CSS_LABEL == "Current CSS (scoped to #demo-root):"
JS_LABEL == "Current JavaScript (executed inside the iframe):"
FENCE_END == "[closing code fence]"
HTML_NONE == "<!-- none -->"
CSS_NONE == "/* none */"
JS_NONE == "// none"
REQUEST_COMPLETED == "Request completed"

\* ------------------------------------------------------------ buildMessages
Message(role, content) == [role |-> role, content |-> content]

\* Parameter defaults (history = [], state = {}): they replace undefined only.
DefaultHistory(h) == IF h.kind = "undefined" THEN HistArray(<< >>) ELSE h
DefaultState(s) == IF s.kind = "undefined" THEN StateObject(UNDEFINED, UNDEFINED, UNDEFINED) ELSE s

OrDefault_NoFallback(v, d) == Interpolate(v)
\* The interpolation ${v || d}.
OrDefault(v, d) == IF Truthy(v) THEN Interpolate(v) ELSE d

\* The first variant's only system message (lines 36-75).
SystemMessageV1(state) ==
    Message("system", <<SYSTEM_V1_INTRO,
                        HTML_LABEL, OrDefault(state.html, HTML_NONE),
                        CSS_LABEL, OrDefault(state.css, CSS_NONE),
                        SYSTEM_V1_RULES>>)

\* The second variant's leading system message (lines 185-210).
SystemMessageV2 == Message("system", <<SYSTEM_V2_TEXT>>)

\* The second variant's trailing system message (lines 219-232).
StateMessageV2(state) ==
    Message("system", <<HTML_LABEL, OrDefault(state.html, HTML_NONE),
                        CSS_LABEL, OrDefault(state.css, CSS_NONE),
                        JS_LABEL, OrDefault(state.js, JS_NONE),
                        FENCE_END>>)

RECURSIVE HistoryReplay_NoAssistant(_)
HistoryReplay_NoAssistant(items) ==
    IF items = << >> THEN << >>
    ELSE <<Message("user", <<Head(items)>>)>> \o HistoryReplay_NoAssistant(Tail(items))

RECURSIVE HistoryReplay_Loop(_)
HistoryReplay_Loop(items) ==
    IF items = << >> THEN << >>
    ELSE <<Message("user", <<Head(items)>>), Message("assistant", <<REQUEST_COMPLETED>>)>>
         \o HistoryReplay_Loop(Tail(items))

\* for (const userPrompt of history) { push user; push assistant }
HistoryReplay(items) == HistoryReplay_Loop(items)

Threw == [threw |-> TRUE, msgs |-> << >>]
Returned(msgs) == [threw |-> FALSE, msgs |-> msgs]

\* Reading state.html of null, and iterating a value that is not iterable,
\* both throw a TypeError.
buildMessages_StateFirst(v, historyArg, stateArg) ==
    LET history == DefaultHistory(historyArg)
        state == DefaultState(stateArg)
    IN  IF state.kind = "null" \/ history.kind # "array" THEN Threw
        ELSE IF v = 1 THEN Returned(<<SystemMessageV1(state)>> \o HistoryReplay(history.items))
        ELSE Returned(<<StateMessageV2(state), SystemMessageV2>> \o HistoryReplay(history.items))

buildMessages(v, historyArg, stateArg) ==
    LET history == DefaultHistory(historyArg)
        state == DefaultState(stateArg)
    IN  IF state.kind = "null" \/ history.kind # "array" THEN Threw
        ELSE IF v = 1 THEN Returned(<<SystemMessageV1(state)>> \o HistoryReplay(history.items))
        ELSE Returned(<<SystemMessageV2>> \o HistoryReplay(history.items)
                      \o <<StateMessageV2(state)>>)

\* ------------------------------------------------------- upstream JSON body
\* The parsed upstream body, as far as data?.choices?.[0]?.message?.content
\* looks into it: each level is a tagged record.
MsgUndefined == [t |-> "undefined", content |-> UNDEFINED]
MsgNull == [t |-> "null", content |-> UNDEFINED]
MsgObject(c) == [t |-> "object", content |-> c]
ChoiceUndefined == [t |-> "undefined", message |-> MsgUndefined]
ChoiceNull == [t |-> "null", message |-> MsgUndefined]
ChoiceObject(m) == [t |-> "object", message |-> m]
ChoicesUndefined == [t |-> "undefined", items |-> << >>]
ChoicesNull == [t |-> "null", items |-> << >>]
ChoicesArray(items) == [t |-> "array", items |-> items]
DataNone == [t |-> "none", choices |-> ChoicesUndefined]
DataNull == [t |-> "null", choices |-> ChoicesUndefined]
DataString == [t |-> "string", choices |-> ChoicesUndefined]
DataObject(ch) == [t |-> "object", choices |-> ch]

\* data?.choices
GetChoices(data) == IF data.t = "object" THEN data.choices ELSE ChoicesUndefined
\* ?.[0]
GetFirst(ch) == IF ch.t = "array" /\ Len(ch.items) >= 1 THEN ch.items[1] ELSE ChoiceUndefined
\* ?.message
GetMessage(c) == IF c.t = "object" THEN c.message ELSE MsgUndefined
\* ?.content
GetContent(m) == IF m.t = "object" THEN m.content ELSE UNDEFINED

ExtractReply_NoDefault(data) == GetContent(GetMessage(GetFirst(GetChoices(data))))
\* const reply = data?.choices?.[0]?.message?.content ?? "";
ExtractReply(data) ==
    LET c == GetContent(GetMessage(GetFirst(GetChoices(data))))
    IN  IF Nullish(c) THEN "" ELSE c

\* ------------------------------------------------------------ the handler
\* What res.status(s).json(body) sends; a key the body lacks is UNDEFINED.
HttpResponse(status, error, details, reply) ==
    [status |-> status, error |-> error, details |-> details, reply |-> reply]

Body(prompt, history, state) == [prompt |-> prompt, history |-> history, state |-> state]

\* A request the server has not received yet.
Idle == [pc |-> "idle", body |-> Body(UNDEFINED, HistUndefined, StateUndefined),
         messages |-> << >>, calls |-> 0, fetch |-> "none", status |-> 0,
         raw |-> UNDEFINED, data |-> DataNone, thrown |-> UNDEFINED, responses |-> << >>]

PromptMissing_OnlyUndefined(prompt) == prompt = UNDEFINED
\* if (!prompt)
PromptMissing(prompt) == ~Truthy(prompt)

SubmittedMessages_PromptFirst(msgs, prompt) == <<Message("user", <<prompt>>)>> \o msgs
\* messages.push({ role: "user", content: prompt })
SubmittedMessages(msgs, prompt) == Append(msgs, Message("user", <<prompt>>))

\* The handler from its entry to its first await (or to its return or throw):
\* destructuring with defaults, validation, buildMessages, push, fetch(...).
handleChat(v, r, body) ==
    LET prompt == body.prompt
        history == DefaultHistory(body.history)
        state == DefaultState(body.state)
        built == buildMessages(v, history, state)
    IN  IF PromptMissing(prompt)
        THEN [r EXCEPT !.pc = "done", !.body = body,
                       !.responses = Append(@, HttpResponse(400, "Missing prompt", UNDEFINED, UNDEFINED))]
        ELSE IF built.threw
        THEN [r EXCEPT !.pc = "threw", !.body = body]
        ELSE [r EXCEPT !.pc = "awaitFetch", !.body = body,
                       !.messages = SubmittedMessages(built.msgs, prompt),
                       !.calls = @ + 1, !.fetch = "pending"]

CatchHandler_Rethrow(r, message) == [r EXCEPT !.pc = "threw"]
\* catch (e) { res.status(500).json({ error: "Proxy error", details: e.message }) }
CatchHandler(r, message) ==
    [r EXCEPT !.pc = "done",
              !.responses = Append(@, HttpResponse(500, "Proxy error", message, UNDEFINED))]

\* response.ok
Ok(status) == status >= 200 /\ status <= 299

\* The handler resumes after await fetch(...) with a response of status
\* r.status: if (!response.ok) it awaits response.text(), else response.json().
OnFetchResolved(r) == [r EXCEPT !.pc = IF Ok(r.status) THEN "awaitJson" ELSE "awaitText"]

\* Without the return the handler goes on to response.json(), which throws
\* on the body that response.text() has consumed.
OnTextRead_NoReturn(r, err) ==
    CatchHandler([r EXCEPT !.responses = Append(@, HttpResponse(502, "OpenAI request failed", err, UNDEFINED))],
                 "Body is unusable")
OnTextRead_NoDetails(r, err) ==
    [r EXCEPT !.pc = "done",
              !.responses = Append(@, HttpResponse(502, "OpenAI request failed", UNDEFINED, UNDEFINED))]
\* const err = await response.text(); return res.status(502).json({...})
OnTextRead(r, err) ==
    [r EXCEPT !.pc = "done",
              !.responses = Append(@, HttpResponse(502, "OpenAI request failed", err, UNDEFINED))]

\* const data = await response.json(); ...; res.json({ reply })
OnJsonParsed(r, data) ==
    [r EXCEPT !.pc = "done",
              !.responses = Append(@, HttpResponse(200, UNDEFINED, UNDEFINED, ExtractReply(data)))]

\* ------------------------------------------------------------------ inputs
SeqsUpTo(S, n) == UNION {[1..k -> S] : k \in 0..n}

HistoryItems == {"a", "b"}
Histories == {HistUndefined, HistNull, HistNumber}
             \cup {HistArray(s) : s \in SeqsUpTo(HistoryItems, MaxHist)}
States == {StateUndefined, StateNull}
          \cup {StateObject(h, c, j) : h \in {UNDEFINED, NULL, "", "<p>hi</p>"},
                                       c \in {UNDEFINED, "", "p{color:red}"},
                                       j \in {UNDEFINED, "", "alert(1)"}}
Prompts == {UNDEFINED, NULL, "", "a", REQUEST_COMPLETED}

AllBodies == {Body(p, h, s) : p \in Prompts, h \in Histories, s \in States}

\* The bodies of the requests that run concurrently.
ConcurrentBodies ==
    {Body(UNDEFINED, HistUndefined, StateUndefined),
     Body("a", HistArray(<<"b">>), StateObject("<p>hi</p>", UNDEFINED, "")),
     Body("a", HistNull, StateUndefined)}

RequestBodies == IF Cardinality(DOMAIN reqs) > 1 THEN ConcurrentBodies ELSE AllBodies

\* What the upstream endpoint may do.
Statuses == {200, 204, 404, 503}
RawBodies == {"", "Service Unavailable", "{error: rate limit}"}
FetchErrors == {"fetch failed"}
TextErrors == {"terminated"}
JsonErrors == {"Unexpected end of JSON input"}
UpstreamData ==
    {DataNull, DataString, DataObject(ChoicesUndefined), DataObject(ChoicesNull),
     DataObject(ChoicesArray(<< >>)),
     DataObject(ChoicesArray(<<ChoiceNull>>)),
     DataObject(ChoicesArray(<<ChoiceObject(MsgUndefined)>>)),
     DataObject(ChoicesArray(<<ChoiceObject(MsgNull)>>)),
     DataObject(ChoicesArray(<<ChoiceNull, ChoiceObject(MsgObject("Y"))>>)),
     DataObject(ChoicesArray(<<ChoiceObject(MsgObject("X")), ChoiceObject(MsgObject("Y"))>>))}
    \cup {DataObject(ChoicesArray(<<ChoiceObject(MsgObject(c))>>)) : c \in {UNDEFINED, NULL, "", "X"}}

\* ----------------------------------------------------------------- actions
NoCall == [pc |-> "none", history |-> HistUndefined, state |-> StateUndefined, msgs |-> << >>]

\* app.post("/api/chat", async (req, res) => ...) is entered with req.body = body
\* and runs to its first await.
Receive(id) ==
    /\ reqs[id].pc = "idle"
    /\ \E body \in RequestBodies : reqs' = [reqs EXCEPT ![id] = handleChat(variant, reqs[id], body)]
    /\ UNCHANGED <<variant, call>>

\* The fields fetch, status, raw, data and thrown record what the upstream
\* call did; the handler's continuation decides pc and responses.
FetchResolves(id) ==
    /\ reqs[id].pc = "awaitFetch"
    /\ \E status \in Statuses :
          reqs' = [reqs EXCEPT ![id] =
                      OnFetchResolved([reqs[id] EXCEPT !.fetch = "resolved", !.status = status])]
    /\ UNCHANGED <<variant, call>>

FetchRejects(id) ==
    /\ reqs[id].pc = "awaitFetch"
    /\ \E m \in FetchErrors :
          reqs' = [reqs EXCEPT ![id] =
                      CatchHandler([reqs[id] EXCEPT !.fetch = "rejected", !.thrown = m], m)]
    /\ UNCHANGED <<variant, call>>

TextRead(id) ==
    /\ reqs[id].pc = "awaitText"
    /\ \E err \in RawBodies :
          reqs' = [reqs EXCEPT ![id] = OnTextRead([reqs[id] EXCEPT !.raw = err], err)]
    /\ UNCHANGED <<variant, call>>

TextFails(id) ==
    /\ reqs[id].pc = "awaitText"
    /\ \E m \in TextErrors :
          reqs' = [reqs EXCEPT ![id] = CatchHandler([reqs[id] EXCEPT !.thrown = m], m)]
    /\ UNCHANGED <<variant, call>>

JsonParsed(id) ==
    /\ reqs[id].pc = "awaitJson"
    /\ \E data \in UpstreamData :
          reqs' = [reqs EXCEPT ![id] = OnJsonParsed([reqs[id] EXCEPT !.data = data], data)]
    /\ UNCHANGED <<variant, call>>

JsonFails(id) ==
    /\ reqs[id].pc = "awaitJson"
    /\ \E m \in JsonErrors :
          reqs' = [reqs EXCEPT ![id] = CatchHandler([reqs[id] EXCEPT !.thrown = m], m)]
    /\ UNCHANGED <<variant, call>>

\* One call of buildMessages({ history, state }) on its own.
BuildCall ==
    /\ call.pc = "ready"
    /\ LET built == buildMessages(variant, call.history, call.state)
       IN  call' = [call EXCEPT !.pc = IF built.threw THEN "threw" ELSE "returned",
                                !.msgs = built.msgs]
    /\ UNCHANGED <<variant, reqs>>

\* ---------------------------------------------------------- specifications
\* One request, every body.
Init ==
    /\ variant \in {1, 2}
    /\ reqs = [id \in {1} |-> Idle]
    /\ call = NoCall

Next ==
    \/ \E id \in DOMAIN reqs : Receive(id)
    \/ \E id \in DOMAIN reqs : FetchResolves(id)
    \/ \E id \in DOMAIN reqs : FetchRejects(id)
    \/ \E id \in DOMAIN reqs : TextRead(id)
    \/ \E id \in DOMAIN reqs : TextFails(id)
    \/ \E id \in DOMAIN reqs : JsonParsed(id)
    \/ \E id \in DOMAIN reqs : JsonFails(id)

Spec == Init /\ [][Next]_vars

\* NumReqs requests handled concurrently: their steps interleave at the awaits.
InitConc ==
    /\ variant \in {1, 2}
    /\ reqs = [id \in 1..NumReqs |-> Idle]
    /\ call = NoCall

SpecConc == InitConc /\ [][Next]_vars

\* buildMessages as a pure function of (history, state).
InitBuild ==
    /\ variant \in {1, 2}
    /\ reqs = [id \in {} |-> Idle]
    /\ call \in {[pc |-> "ready", history |-> h, state |-> s, msgs |-> << >>] :
                    h \in Histories, s \in States}

NextBuild == BuildCall

SpecBuild == InitBuild /\ [][NextBuild]_vars

\* ================================================================== claims
Finished(r) == r.pc \in {"done", "threw"}
ValidPrompt(p) == p \notin {UNDEFINED, NULL, ""}
UserMessage(text) == [role |-> "user", content |-> <<text>>]
AssistantMessage == [role |-> "assistant", content |-> <<"Request completed">>]

\* C1: a request whose prompt is missing or the empty string is answered
\* with 400 {error: "Missing prompt"}, whatever history and state are, and
\* no upstream call is made for it.
C1_InvalidRequest ==
    \A id \in DOMAIN reqs :
        LET r == reqs[id]
        IN  (r.pc # "idle" /\ r.body.prompt \in {UNDEFINED, ""})
            => /\ r.pc = "done"
               /\ r.responses = <<[status |-> 400, error |-> "Missing prompt",
                                   details |-> UNDEFINED, reply |-> UNDEFINED]>>
               /\ r.calls = 0
               /\ r.fetch = "none"
               /\ r.messages = << >>

C1_Witness ==
    \E id \in DOMAIN reqs :
        /\ reqs[id].pc = "done"
        /\ reqs[id].body.prompt = ""
        /\ reqs[id].body.history.kind = "null"
        /\ reqs[id].body.state.kind = "null"
        /\ Len(reqs[id].responses) = 1
        /\ reqs[id].responses[1].status = 400

\* C2: no exception escapes the handler: every request the handler has
\* finished with has been answered, also when history is null or not
\* iterable or state is null.
C2_NoEscape ==
    \A id \in DOMAIN reqs :
        /\ reqs[id].pc # "threw"
        /\ Finished(reqs[id]) => Len(reqs[id].responses) >= 1

\* C3 as stated: a non-2xx upstream status always ends in 502 with the raw
\* upstream body as details, never in 200 or 500.
C3_Original ==
    \A id \in DOMAIN reqs :
        LET r == reqs[id]
        IN  (Finished(r) /\ r.fetch = "resolved" /\ ~(r.status \in 200..299))
            => /\ r.raw # UNDEFINED
               /\ r.responses = <<[status |-> 502, error |-> "OpenAI request failed",
                                   details |-> r.raw, reply |-> UNDEFINED]>>

\* C3 (amended): a non-2xx upstream status whose body is read ends in 502
\* with exactly the raw upstream body as details; when reading the body
\* fails instead, the request ends in the 500 response carrying the
\* exception message.  Neither case ends in 200.
C3_UpstreamError ==
    \A id \in DOMAIN reqs :
        LET r == reqs[id]
        IN  (Finished(r) /\ r.fetch = "resolved" /\ ~(r.status \in 200..299))
            => IF r.raw # UNDEFINED
               THEN r.responses = <<[status |-> 502, error |-> "OpenAI request failed",
                                     details |-> r.raw, reply |-> UNDEFINED]>>
               ELSE /\ r.thrown \in TextErrors
                    /\ r.responses = <<[status |-> 500, error |-> "Proxy error",
                                        details |-> r.thrown, reply |-> UNDEFINED]>>

C3_Witness ==
    \E id \in DOMAIN reqs :
        /\ reqs[id].pc = "done"
        /\ reqs[id].status = 503
        /\ reqs[id].raw = "Service Unavailable"
        /\ reqs[id].responses[1].status = 502
        /\ reqs[id].responses[1].details = "Service Unavailable"

\* C4: when fetch rejects, or reading or parsing the upstream body throws,
\* the request is answered with 500 {error: "Proxy error", details: the
\* exception message} and the exception does not leave the handler.
C4_RelayError ==
    \A id \in DOMAIN reqs :
        LET r == reqs[id]
        IN  r.thrown # UNDEFINED
            => /\ r.pc = "done"
               /\ r.responses = <<[status |-> 500, error |-> "Proxy error",
                                   details |-> r.thrown, reply |-> UNDEFINED]>>

C4_Witness ==
    \E id \in DOMAIN reqs :
        /\ reqs[id].fetch = "rejected"
        /\ reqs[id].thrown = "fetch failed"
        /\ reqs[id].pc = "done"
        /\ reqs[id].responses[1].status = 500

\* The content of the first choice's message, when the body has that shape.
HasContent(d) ==
    /\ d.t = "object"
    /\ d.choices.t = "array"
    /\ Len(d.choices.items) >= 1
    /\ d.choices.items[1].t = "object"
    /\ d.choices.items[1].message.t = "object"
    /\ d.choices.items[1].message.content \notin {UNDEFINED, NULL}

\* C5: a 2xx upstream answer with a JSON body ends in 200 {reply}, reply
\* being choices[0].message.content when present and "" otherwise; no
\* shape of the body ends in an error response.
C5_Reply ==
    \A id \in DOMAIN reqs :
        LET r == reqs[id]
        IN  r.data # DataNone
            => /\ r.pc = "done"
               /\ r.status \in 200..299
               /\ r.responses =
                    <<[status |-> 200, error |-> UNDEFINED, details |-> UNDEFINED,
                       reply |-> IF HasContent(r.data)
                                 THEN r.data.choices.items[1].message.content
                                 ELSE ""]>>

C5_Witness ==
    \E id \in DOMAIN reqs :
        /\ reqs[id].pc = "done"
        /\ reqs[id].data = DataObject(ChoicesArray(<<ChoiceObject(MsgObject("X")),
                                                     ChoiceObject(MsgObject("Y"))>>))
        /\ reqs[id].responses[1].reply = "X"

\* The history a call of buildMessages replays.
CallHistory == IF call.history.kind = "array" THEN call.history.items ELSE << >>
NonSystem(m) == m.role # "system"

\* C6: the messages buildMessages emits for the history h are 2 * Len(h)
\* messages that follow the first message without a gap: the i-th pair is
\* the user message h[i], then the assistant message "Request completed".
C6_HistoryReplay ==
    call.pc = "returned"
    => /\ Len(SelectSeq(call.msgs, NonSystem)) = 2 * Len(CallHistory)
       /\ Len(call.msgs) >= 1 + 2 * Len(CallHistory)
       /\ \A i \in 1..Len(CallHistory) :
             /\ call.msgs[2 * i] = UserMessage(CallHistory[i])
             /\ call.msgs[2 * i + 1] = AssistantMessage

C6_Witness ==
    /\ call.pc = "returned"
    /\ call.history = HistArray(<<"b", "a">>)
    /\ call.msgs[2] = UserMessage("b")
    /\ call.msgs[4] = UserMessage("a")

\* The state a call of buildMessages reads its fields from.
CallState == IF call.state.kind = "object" THEN call.state ELSE StateObject(UNDEFINED, UNDEFINED, UNDEFINED)
\* What a slot must hold for a field: the field, or its placeholder when
\* the field is absent or empty.
Expected(field, placeholder) == IF field \in {UNDEFINED, NULL, ""} THEN placeholder ELSE field
\* The pieces of m's content that directly follow the label.
SlotsAfter(m, label) ==
    {m.content[i + 1] : i \in {j \in 1..(Len(m.content) - 1) : m.content[j] = label}}
Carries(m, label, field, placeholder) == SlotsAfter(m, label) = {Expected(field, placeholder)}
Mentions(m, text) == \E i \in 1..Len(m.content) : m.content[i] = text
SystemAt == {i \in 1..Len(call.msgs) : call.msgs[i].role = "system"}

\* C7 as stated: exactly one system message, the first one, and it carries
\* state.html, state.css and state.js or their placeholders; every other
\* message is a user or an assistant message.
C7_Original ==
    call.pc = "returned"
    => /\ SystemAt = {1}
       /\ Carries(call.msgs[1], HTML_LABEL, CallState.html, HTML_NONE)
       /\ Carries(call.msgs[1], CSS_LABEL, CallState.css, CSS_NONE)
       /\ Carries(call.msgs[1], JS_LABEL, CallState.js, JS_NONE)
       /\ \A i \in 2..Len(call.msgs) : call.msgs[i].role \in {"user", "assistant"}

\* C7 (amended): the first message is always a system message and every
\* message that is not a system message is a user or an assistant message.
\* In the first variant it is the only system message and carries
\* state.html and state.css (or their placeholders) and nothing of
\* state.js.  In the second variant there are exactly two system messages:
\* the first carries fixed instructions only, and the last message of the
\* result, after the history replay, carries state.html, state.css and
\* state.js (or their placeholders).
C7_SystemMessages ==
    call.pc = "returned"
    => LET n == Len(call.msgs)
       IN  /\ n >= 1
           /\ call.msgs[1].role = "system"
           /\ \A i \in 1..n : call.msgs[i].role \in {"system", "user", "assistant"}
           /\ variant = 1
              => /\ SystemAt = {1}
                 /\ Carries(call.msgs[1], HTML_LABEL, CallState.html, HTML_NONE)
                 /\ Carries(call.msgs[1], CSS_LABEL, CallState.css, CSS_NONE)
                 /\ ~Mentions(call.msgs[1], JS_LABEL)
           /\ variant = 2
              => /\ SystemAt = {1, n}
                 /\ n >= 2
                 /\ call.msgs[1].content = <<SYSTEM_V2_TEXT>>
                 /\ Carries(call.msgs[n], HTML_LABEL, CallState.html, HTML_NONE)
                 /\ Carries(call.msgs[n], CSS_LABEL, CallState.css, CSS_NONE)
                 /\ Carries(call.msgs[n], JS_LABEL, CallState.js, JS_NONE)

C7_Witness ==
    /\ variant = 2
    /\ call.pc = "returned"
    /\ Len(CallHistory) = 2
    /\ call.state = StateObject("<p>hi</p>", "", "alert(1)")
    /\ call.msgs[6].role = "system"
    /\ Mentions(call.msgs[6], "alert(1)")

\* Some system message holds the field's slot, filled as expected.
SlotFilled(label, field, placeholder) ==
    /\ \E i \in SystemAt : Carries(call.msgs[i], label, field, placeholder)
    /\ \A i \in 1..Len(call.msgs) :
          SlotsAfter(call.msgs[i], label) \cap {"", "undefined", "null", UNDEFINED, NULL} = {}

\* C8 as stated: each of html, css and js has a slot in the system message,
\* holding the placeholder when the field is absent or empty and the field
\* verbatim otherwise.
C8_Original ==
    call.pc = "returned"
    => /\ SlotFilled(HTML_LABEL, CallState.html, HTML_NONE)
       /\ SlotFilled(CSS_LABEL, CallState.css, CSS_NONE)
       /\ SlotFilled(JS_LABEL, CallState.js, JS_NONE)

\* C8 (amended): html and css have such a slot in both variants, js has
\* one in the second variant only; the first variant's messages hold no js
\* slot, state.js is not in them and neither is the placeholder "// none".
C8_Placeholders ==
    call.pc = "returned"
    => /\ SlotFilled(HTML_LABEL, CallState.html, HTML_NONE)
       /\ SlotFilled(CSS_LABEL, CallState.css, CSS_NONE)
       /\ variant = 2 => SlotFilled(JS_LABEL, CallState.js, JS_NONE)
       /\ variant = 1
          => \A i \in 1..Len(call.msgs) :
                /\ ~Mentions(call.msgs[i], JS_LABEL)
                /\ ~Mentions(call.msgs[i], JS_NONE)
                /\ ~Mentions(call.msgs[i], "alert(1)")

C8_Witness ==
    /\ variant = 2
    /\ call.pc = "returned"
    /\ call.state = StateObject("", "p{color:red}", UNDEFINED)
    /\ Mentions(call.msgs[Len(call.msgs)], HTML_NONE)
    /\ Mentions(call.msgs[Len(call.msgs)], "p{color:red}")
    /\ Mentions(call.msgs[Len(call.msgs)], JS_NONE)

\* C9: for a request with a valid prompt that buildMessages does not throw
\* on, the list submitted upstream is the output of buildMessages(history,
\* state) followed by the user message of the prompt, one message longer,
\* and the output itself holds a user message of the prompt only when the
\* prompt is in history.
C9_Submitted ==
    \A id \in DOMAIN reqs :
        LET r == reqs[id]
            built == buildMessages(variant, r.body.history, r.body.state)
            n == Len(built.msgs)
        IN  (r.pc \notin {"idle", "threw"} /\ ValidPrompt(r.body.prompt))
            => /\ r.calls = 1
               /\ ~built.threw
               /\ Len(r.messages) = n + 1
               /\ SubSeq(r.messages, 1, n) = built.msgs
               /\ r.messages[n + 1] = UserMessage(r.body.prompt)
               /\ \A i \in 1..n :
                     r.messages[i] = UserMessage(r.body.prompt)
                     => \E k \in 1..Len(r.body.history.items) :
                           r.body.history.items[k] = r.body.prompt

C9_Witness ==
    \E id \in DOMAIN reqs :
        /\ reqs[id].pc = "awaitFetch"
        /\ reqs[id].body.prompt = "a"
        /\ reqs[id].body.history = HistArray(<<"b", "a">>)
        /\ Len(reqs[id].messages) = 6 + variant - 1
        /\ reqs[id].messages[Len(reqs[id].messages)] = UserMessage("a")

\* C10: each request is one pass.  It makes at most one upstream call, and
\* only with a valid prompt; it is answered at most once; a 200, 502 or 500
\* answer is sent only once the call has resolved or rejected, and while
\* the call is pending nothing has been sent.  This holds of every request
\* under every interleaving of the requests' steps.
C10_SinglePass ==
    \A id \in DOMAIN reqs :
        LET r == reqs[id]
        IN  /\ r.calls <= 1
            /\ Len(r.responses) <= 1
            /\ r.calls = 1 => ValidPrompt(r.body.prompt)
            /\ (r.calls = 0) = (r.fetch = "none")
            /\ r.fetch = "pending" => r.responses = << >>
            /\ \A i \in 1..Len(r.responses) :
                  r.responses[i].status \in {200, 502, 500}
                  => r.calls = 1 /\ r.fetch \in {"resolved", "rejected"}
            /\ r.pc \in {"awaitFetch", "awaitText", "awaitJson"} => r.responses = << >>

C10_Witness ==
    /\ Cardinality(DOMAIN reqs) >= 2
    /\ reqs[1].pc = "done"
    /\ reqs[1].responses[1].status = 502
    /\ reqs[1].calls = 1
    /\ reqs[2].pc = "awaitJson"
    /\ reqs[2].calls = 1

====
